---- MODULE Spec2Model ----
(***************************************************************************)
(* A model of DBOperator / DBOperatorBase                                  *)
(* (modules/tools/navi_generator/backend/database/db_operator.cc).         *)
(*                                                                         *)
(* The state is the SQLite connection `sqlite_` owned by the operator: the *)
(* content of the five tables as the connection sees it, whether a         *)
(* transaction is open and the content a ROLLBACK would restore.  Every    *)
(* public operation is one action; the driver's own failures (a statement, *)
(* BEGIN, COMMIT or ROLLBACK that does not succeed) are inputs of the      *)
(* action.  Values keep the storage class the DDL gives their column:      *)
(* a TEXT column holds the decimal text of the number bound to it.         *)
(***************************************************************************)
EXTENDS Integers, Sequences, FiniteSets

VARIABLES sqlite_, foreign_keys, last, issued

vars == <<sqlite_, foreign_keys, last, issued>>

(***************************************************************************)
(* Bounds of the model.                                                    *)
(***************************************************************************)
\* longest node list / navigation list passed to a save or an update
MaxNodes == 2
\* most rows way_nodes (navi_data) may hold before saves stop
MaxRows == 3
\* the allocator is followed up to this way id
MaxAllocId == 11
\* the greatest navi_table_id a way_data row is saved with
MaxShardId == 10

(***************************************************************************)
(* Program constants.                                                      *)
(***************************************************************************)
kMaxNumberOfTables == 5
kTableNames == <<"speed_limit", "way", "way_nodes", "way_data", "navi_data">>
kTableSpeedLimit == 0
kTableWay == 1
kTableWayNodes == 2
kTableWayData == 3
kTableNaviData == 4
\* FillTableSpeedLimit: for (i = 1; i <= 13; i++), speed_base, speed_step
kSpeedLimitRows == 13
speed_base == 30
speed_step == 10
kMaxRowNumberOfDBTable == 10000

(***************************************************************************)
(* Text.  A TEXT value is the sequence of its decimal digits.              *)
(***************************************************************************)
RECURSIVE to_string(_)
\* std::to_string, and SQLite's conversion of an integer stored in a TEXT column
to_string(n) == IF n < 10 THEN <<n>> ELSE Append(to_string(n \div 10), n % 10)

RECURSIVE GetUint64Value(_)
\* the reader's integer getter applied to a TEXT value: the digits' number
GetUint64Value(t) ==
    IF Len(t) = 0 THEN 0
    ELSE 10 * GetUint64Value(SubSeq(t, 1, Len(t) - 1)) + t[Len(t)]

RECURSIVE TextLess(_, _)
\* SQLite's BINARY collation: byte-wise comparison, a proper prefix is smaller
TextLess(a, b) ==
    IF Len(b) = 0 THEN FALSE
    ELSE IF Len(a) = 0 THEN TRUE
    ELSE IF a[1] # b[1] THEN a[1] < b[1]
    ELSE TextLess(Tail(a), Tail(b))

\* a nullable TEXT column: SQL NULL, or a text
SqlNull == [type |-> "null", text |-> <<>>]
SqlText(t) == [type |-> "text", text |-> t]

(***************************************************************************)
(* The store.                                                              *)
(***************************************************************************)
EmptyDb ==
    [tables |-> {}, speed_limit |-> {}, way |-> {}, way_nodes |-> <<>>,
     way_data |-> {}, navi_data |-> <<>>]

\* the connection right after Open on a new file
Closed(db) == [db |-> db, in_txn |-> FALSE, snap |-> EmptyDb]

\* BEGIN TRANSACTION: fails when the driver fails or a transaction is open
BeginTransaction(s, fail) ==
    IF fail \/ s.in_txn THEN [ok |-> FALSE, s |-> s]
    ELSE [ok |-> TRUE, s |-> [db |-> s.db, in_txn |-> TRUE, snap |-> s.db]]

\* COMMIT: fails when no transaction is open; when the driver fails the
\* transaction either stays open (keep) or is rolled back by the engine
CommitTransaction(s, fail, keep) ==
    IF ~s.in_txn THEN [ok |-> FALSE, s |-> s]
    ELSE IF ~fail THEN [ok |-> TRUE, s |-> Closed(s.db)]
    ELSE IF keep THEN [ok |-> FALSE, s |-> s]
    ELSE [ok |-> FALSE, s |-> Closed(s.snap)]

\* ROLLBACK: fails when no transaction is open or the driver fails
RollbackTransaction(s, fail) ==
    IF ~s.in_txn \/ fail THEN [ok |-> FALSE, s |-> s]
    ELSE [ok |-> TRUE, s |-> Closed(s.snap)]

\* the connection with its content replaced
WithDb(s, db) == [s EXCEPT !.db = db]

(***************************************************************************)
(* DBOperatorBase.                                                         *)
(***************************************************************************)
\* SELECT count(*) FROM sqlite_master WHERE type='table' AND name LIKE '<name>'
IsTableExisting(s, table_name, fail) ==
    IF table_name >= kMaxNumberOfTables THEN FALSE
    ELSE IF fail THEN FALSE
    ELSE LET count == Cardinality({n \in s.db.tables : n = kTableNames[table_name + 1]})
         IN  count > 0

\* CREATE TABLE [<name>] (...): fails when the table exists or the driver fails.
\* An index the switch has no case for leaves sql empty: when the driver
\* executes the empty statement the call returns true, and when it fails it the
\* error path evaluates kTableNames.at(table_name), which throws
\* std::out_of_range (thrown).
CreateTable(s, table_name, fail) ==
    IF table_name >= kMaxNumberOfTables
    THEN [ok |-> ~fail, s |-> s, thrown |-> fail]
    ELSE LET name == kTableNames[table_name + 1]
         IN  IF fail \/ name \in s.db.tables
             THEN [ok |-> FALSE, s |-> s, thrown |-> FALSE]
             ELSE [ok |-> TRUE,
                   s |-> WithDb(s, [s.db EXCEPT !.tables = @ \cup {name}]),
                   thrown |-> FALSE]

(***************************************************************************)
(* DBOperator: initialisation.                                             *)
(***************************************************************************)
\* INSERT INTO speed_limit(id,speed) VALUES(?,?); id is the primary key
InsertSpeedLimit(s, id, speed, fail) ==
    IF \/ fail
       \/ "speed_limit" \notin s.db.tables
       \/ \E r \in s.db.speed_limit : r.id = id
    THEN [ok |-> FALSE, s |-> s]
    ELSE [ok |-> TRUE,
          s |-> WithDb(s, [s.db EXCEPT
                   !.speed_limit = @ \cup {[id |-> id, speed |-> speed]}])]

RECURSIVE FillLoop(_, _, _)
\* the loop of FillTableSpeedLimit from row i on; the driver fails insert k
FillLoop(s, i, k) ==
    IF i > kSpeedLimitRows THEN [res |-> TRUE, s |-> s, n |-> i - 1]
    ELSE LET r == InsertSpeedLimit(s, i, speed_base + speed_step * (i - 1), i = k)
         IN  IF ~r.ok THEN [res |-> FALSE, s |-> r.s, n |-> i]
             ELSE FillLoop(r.s, i + 1, k)

\* the ends of a transactional save: commit when res, roll back otherwise;
\* neither call's result is looked at
EndTransaction(s, res, f) ==
    IF res THEN CommitTransaction(s, f.end, f.keep)
    ELSE RollbackTransaction(s, f.end)

FillTableSpeedLimit(s, f) ==
    LET b == BeginTransaction(s, f.begin)
        l == FillLoop(b.s, 1, f.stmt)
        e == EndTransaction(l.s, l.res, f)
    IN  [ret |-> l.res, s |-> e.s, begin_ok |-> b.ok, end_ok |-> e.ok,
         inserts |-> l.n]

RECURSIVE CreateTables_NoShortCircuit(_, _, _)
\* the chain evaluated without short-circuit (& for &&): every CREATE is issued
CreateTables_NoShortCircuit(s, t, k) ==
    IF t >= kMaxNumberOfTables THEN [ok |-> TRUE, s |-> s, n |-> t]
    ELSE LET r == CreateTable(s, t, t + 1 = k)
             c == CreateTables_NoShortCircuit(r.s, t + 1, k)
         IN  [ok |-> r.ok /\ c.ok, s |-> c.s, n |-> IF r.ok THEN c.n ELSE t + 1]

RECURSIVE CreateTables(_, _, _)
\* CreateTable(t) && CreateTable(t + 1) && ...; the driver fails statement k
CreateTables(s, t, k) ==
    IF t >= kMaxNumberOfTables THEN [ok |-> TRUE, s |-> s, n |-> t]
    ELSE LET r == CreateTable(s, t, t + 1 = k)
         IN  IF ~r.ok THEN [ok |-> FALSE, s |-> r.s, n |-> t + 1]
             ELSE CreateTables(r.s, t + 1, k)

\* what a call that never reached FillTableSpeedLimit reports of it
NoFill == [ret |-> FALSE, begin_ok |-> FALSE, end_ok |-> FALSE, inserts |-> 0]

\* InitDatabase without its test of the way table
InitDatabase_NoFastPath(s, f) ==
    LET c == CreateTables(s, kTableSpeedLimit, f.create)
        l == FillTableSpeedLimit(c.s, f)
    IN  IF ~c.ok
        THEN [ret |-> FALSE, s |-> c.s, fast |-> FALSE, creates |-> c.n,
              filled |-> FALSE, fill |-> NoFill]
        ELSE [ret |-> l.ret, s |-> l.s, fast |-> FALSE, creates |-> c.n,
              filled |-> TRUE,
              fill |-> [ret |-> l.ret, begin_ok |-> l.begin_ok,
                        end_ok |-> l.end_ok, inserts |-> l.inserts]]

InitDatabase(s, f) ==
    IF IsTableExisting(s, kTableWay, f.catalog)
    THEN [ret |-> TRUE, s |-> s, fast |-> TRUE, creates |-> 0,
          filled |-> FALSE, fill |-> NoFill]
    ELSE LET c == CreateTables(s, kTableSpeedLimit, f.create)
             l == FillTableSpeedLimit(c.s, f)
         IN  IF ~c.ok
             THEN [ret |-> FALSE, s |-> c.s, fast |-> FALSE, creates |-> c.n,
                   filled |-> FALSE, fill |-> NoFill]
             ELSE [ret |-> l.ret, s |-> l.s, fast |-> FALSE, creates |-> c.n,
                   filled |-> TRUE,
                   fill |-> [ret |-> l.ret, begin_ok |-> l.begin_ok,
                             end_ok |-> l.end_ok, inserts |-> l.inserts]]

(***************************************************************************)
(* DBOperator: the way table.                                              *)
(* A Way is [way_id, pre_way_id, next_way_id, speed_min, speed_max]; its   *)
(* row holds way_id, pre_way_id and next_way_id as TEXT (the last two      *)
(* nullable) and the two speeds as INTEGER.                                *)
(***************************************************************************)
\* the two branches of the conditional swapped
BindNullable_Swapped(v) == IF v # 0 THEN SqlNull ELSE SqlText(to_string(v))

\* cmd.BindParam(i) binds NULL, cmd.BindParam(i, v) the value: (v == 0) ? ... : ...
BindNullable(v) == IF v = 0 THEN SqlNull ELSE SqlText(to_string(v))

\* (GetDataType(i) == kSqliteDataTypeNull) ? 0 : GetUint64Value(i)
ReadNullable(c) == IF c.type = "null" THEN 0 ELSE GetUint64Value(c.text)

\* REFERENCES speed_limit(id), checked when the connection enforces foreign keys
SpeedKeyOk(s, speed) ==
    foreign_keys => \E r \in s.db.speed_limit : r.id = speed

\* REFERENCES way(way_id), checked when the connection enforces foreign keys
WayKeyOk(s, way_id) ==
    foreign_keys => \E r \in s.db.way : r.way_id = to_string(way_id)

WayRow(way) ==
    [way_id |-> to_string(way.way_id),
     pre_way_id |-> BindNullable(way.pre_way_id),
     next_way_id |-> BindNullable(way.next_way_id),
     speed_min |-> way.speed_min,
     speed_max |-> way.speed_max]

\* INSERT INTO way(...) VALUES(?,?,?,?,?); way_id is the primary key
SaveWay(s, way, fail) ==
    IF \/ fail
       \/ "way" \notin s.db.tables
       \/ \E r \in s.db.way : r.way_id = to_string(way.way_id)
       \/ ~SpeedKeyOk(s, way.speed_min)
       \/ ~SpeedKeyOk(s, way.speed_max)
    THEN [ret |-> FALSE, s |-> s]
    ELSE [ret |-> TRUE,
          s |-> WithDb(s, [s.db EXCEPT !.way = @ \cup {WayRow(way)}])]

\* UPDATE way SET pre_way_id=?,next_way_id=?,speed_min=?,speed_max=? WHERE way_id=?
UpdateWay(s, way_id, way, fail) ==
    LET hit == {r \in s.db.way : r.way_id = to_string(way_id)}
        new == {[WayRow(way) EXCEPT !.way_id = r.way_id] : r \in hit}
    IN  IF \/ fail
           \/ "way" \notin s.db.tables
           \/ hit # {} /\ ~(SpeedKeyOk(s, way.speed_min) /\ SpeedKeyOk(s, way.speed_max))
        THEN [ret |-> FALSE, s |-> s]
        ELSE [ret |-> TRUE,
              s |-> WithDb(s, [s.db EXCEPT !.way = (@ \ hit) \cup new])]

\* SELECT * FROM way WHERE way_id = '<way_id>'; at most one row (primary key)
QueryWayWithWayId(s, way_id, way, fail) ==
    LET hit == {r \in s.db.way : r.way_id = to_string(way_id)}
    IN  IF fail \/ "way" \notin s.db.tables \/ hit = {}
        THEN [ret |-> FALSE, way |-> way]
        ELSE LET r == CHOOSE x \in hit : TRUE
             IN  [ret |-> TRUE,
                  way |-> [way_id |-> GetUint64Value(r.way_id),
                           pre_way_id |-> ReadNullable(r.pre_way_id),
                           next_way_id |-> ReadNullable(r.next_way_id),
                           speed_min |-> r.speed_min,
                           speed_max |-> r.speed_max]]

\* max(way_id) over a TEXT column: the greatest text of the BINARY collation
MaxWayIdText(rows) ==
    CHOOSE m \in {r.way_id : r \in rows} :
        \A r \in rows : r.way_id = m \/ TextLess(r.way_id, m)

\* CreateNewWayId that reports success although its query failed
CreateNewWayId_FailureSwallowed(s, way_id, fail) ==
    IF fail \/ "way" \notin s.db.tables THEN [ret |-> TRUE, way_id |-> way_id]
    ELSE IF s.db.way = {} THEN [ret |-> TRUE, way_id |-> 1]
    ELSE [ret |-> TRUE,
          way_id |-> GetUint64Value(MaxWayIdText(s.db.way)) + 1]

\* SELECT max(way_id) from way; one row, NULL when the table is empty
CreateNewWayId(s, way_id, fail) ==
    IF fail \/ "way" \notin s.db.tables THEN [ret |-> FALSE, way_id |-> way_id]
    ELSE IF s.db.way = {} THEN [ret |-> TRUE, way_id |-> 1]
    ELSE [ret |-> TRUE,
          way_id |-> GetUint64Value(MaxWayIdText(s.db.way)) + 1]

\* max(navi_table_id) over a TEXT column: the greatest text of the BINARY collation
MaxNaviTableIdText(rows) ==
    CHOOSE m \in {r.navi_table_id : r \in rows} :
        \A r \in rows : r.navi_table_id = m \/ TextLess(r.navi_table_id, m)

\* what SELECT count(*) from navi_data_<id> may give: the shard tables are not
\* created by DBOperator, so the statement fails (ok FALSE) when the table is
\* missing or the driver fails, and otherwise reads the table's row count
ShardQueries ==
    {[ok |-> FALSE, count |-> 0]} \cup
    {[ok |-> TRUE, count |-> c] :
        c \in {0, kMaxRowNumberOfDBTable - 1, kMaxRowNumberOfDBTable,
               kMaxRowNumberOfDBTable + 1}}

\* SELECT max(navi_table_id) from way_data, then
\* SELECT count(*) from navi_data_<cur_max_table_id>
GetNaviTableId(s, navi_table_id, fail, shard) ==
    IF fail \/ "way_data" \notin s.db.tables
    THEN [ret |-> FALSE, navi_table_id |-> navi_table_id, queries |-> 1]
    ELSE LET cur_max_table_id ==
                 IF s.db.way_data = {} THEN 0
                 ELSE GetUint64Value(MaxNaviTableIdText(s.db.way_data))
         IN  IF ~shard.ok
             THEN [ret |-> FALSE, navi_table_id |-> navi_table_id, queries |-> 2]
             ELSE [ret |-> TRUE,
                   navi_table_id |->
                       IF shard.count < kMaxRowNumberOfDBTable
                       THEN cur_max_table_id
                       ELSE cur_max_table_id + 1,
                   queries |-> 2]

(***************************************************************************)
(* DBOperator: the child tables.                                           *)
(* WayNodes is [way_id, nodes], a Node [node_index, data_line_number,      *)
(* node_value]; WayData is [way_id, raw_data, navi_number, navi_table_id]; *)
(* NaviInfo is [way_id, navi_data], a NaviData [navi_index, data].         *)
(* way_nodes and navi_data have no key: their rows are kept in insertion   *)
(* (rowid) order, the order a SELECT without ORDER BY scans them in.       *)
(***************************************************************************)
\* the reader's 8-bit getter
GetUint8Value(v) == v % 256

\* INSERT INTO way_nodes(way_id,node_index,data_line_number,node_value) VALUES(?,?,?,?)
InsertWayNode(s, way_id, node, fail) ==
    IF fail \/ "way_nodes" \notin s.db.tables \/ ~WayKeyOk(s, way_id)
    THEN [ok |-> FALSE, s |-> s]
    ELSE [ok |-> TRUE,
          s |-> WithDb(s, [s.db EXCEPT !.way_nodes = Append(@,
                   [way_id |-> to_string(way_id),
                    node_index |-> to_string(node.node_index),
                    data_line_number |-> to_string(node.data_line_number),
                    node_value |-> node.node_value])])]

RECURSIVE WayNodesLoop(_, _, _, _)
\* for (auto& node : way_nodes.nodes) from node i on; the driver fails insert k
WayNodesLoop(s, way_nodes, i, k) ==
    IF i > Len(way_nodes.nodes) THEN [res |-> TRUE, s |-> s]
    ELSE LET r == InsertWayNode(s, way_nodes.way_id, way_nodes.nodes[i], i = k)
         IN  IF ~r.ok THEN [res |-> FALSE, s |-> r.s]
             ELSE WayNodesLoop(r.s, way_nodes, i + 1, k)

SaveWayNodes(s, way_nodes, f) ==
    LET b == BeginTransaction(s, f.begin)
        l == WayNodesLoop(b.s, way_nodes, 1, f.stmt)
        e == EndTransaction(l.s, l.res, f)
    IN  [ret |-> l.res, s |-> e.s, begin_ok |-> b.ok, end_ok |-> e.ok]

\* INSERT INTO way_data(way_id,raw_data,navi_number,navi_table_id) VALUES(?,?,?,?);
\* way_id is the primary key
SaveWayData(s, way_data, fail) ==
    IF \/ fail
       \/ "way_data" \notin s.db.tables
       \/ \E r \in s.db.way_data : r.way_id = to_string(way_data.way_id)
       \/ ~WayKeyOk(s, way_data.way_id)
    THEN [ret |-> FALSE, s |-> s]
    ELSE [ret |-> TRUE,
          s |-> WithDb(s, [s.db EXCEPT !.way_data = @ \cup
                   {[way_id |-> to_string(way_data.way_id),
                     raw_data |-> way_data.raw_data,
                     navi_number |-> way_data.navi_number,
                     navi_table_id |-> to_string(way_data.navi_table_id)]}])]

\* INSERT INTO navi_data(way_id,navi_index,data) VALUES(?,?,?)
InsertNaviData(s, way_id, data, fail) ==
    IF fail \/ "navi_data" \notin s.db.tables \/ ~WayKeyOk(s, way_id)
    THEN [ok |-> FALSE, s |-> s]
    ELSE [ok |-> TRUE,
          s |-> WithDb(s, [s.db EXCEPT !.navi_data = Append(@,
                   [way_id |-> to_string(way_id),
                    navi_index |-> data.navi_index,
                    data |-> data.data])])]

RECURSIVE NaviDataLoop(_, _, _, _)
\* for (auto& data : navi_info.navi_data) from entry i on; the driver fails insert k
NaviDataLoop(s, navi_info, i, k) ==
    IF i > Len(navi_info.navi_data) THEN [res |-> TRUE, s |-> s]
    ELSE LET r == InsertNaviData(s, navi_info.way_id, navi_info.navi_data[i], i = k)
         IN  IF ~r.ok THEN [res |-> FALSE, s |-> r.s]
             ELSE NaviDataLoop(r.s, navi_info, i + 1, k)

SaveNaviData(s, navi_info, f) ==
    LET b == BeginTransaction(s, f.begin)
        l == NaviDataLoop(b.s, navi_info, 1, f.stmt)
        e == EndTransaction(l.s, l.res, f)
    IN  [ret |-> l.res, s |-> e.s, begin_ok |-> b.ok, end_ok |-> e.ok]

\* the rows of a keyless table with this way_id, in scan order
RowsOf(rows, way_id) ==
    SelectSeq(rows, LAMBDA r : r.way_id = to_string(way_id))

\* a keyless table without the rows of this way_id
RowsNotOf(rows, way_id) ==
    SelectSeq(rows, LAMBDA r : r.way_id # to_string(way_id))

\* while (reader->Read()) { ... navi_data->emplace_back(data); }
ReadNaviData(rows) ==
    [i \in 1..Len(rows) |->
        [navi_index |-> GetUint8Value(rows[i].navi_index), data |-> rows[i].data]]

\* SELECT navi_index, data FROM navi_data WHERE way_id = '<way_id>'
QueryNaviDataWithWayId(s, way_id, navi_data, fail) ==
    IF fail \/ "navi_data" \notin s.db.tables
    THEN [ret |-> FALSE, navi_data |-> navi_data]
    ELSE LET rows == RowsOf(s.db.navi_data, way_id)
         IN  [ret |-> Len(rows) > 0,
              navi_data |-> navi_data \o ReadNaviData(rows)]

RECURSIVE LeadingNumber(_, _, _)
\* the number the ASCII digits of b from position i on spell, after acc
LeadingNumber(b, i, acc) ==
    IF i > Len(b) \/ b[i] < 48 \/ b[i] > 57 THEN acc
    ELSE LeadingNumber(b, i + 1, 10 * acc + (b[i] - 48))

\* the integer getter applied to a BLOB value: its leading digits' number
BlobToInt(b) == LeadingNumber(b, 1, 0)

\* SELECT data FROM navi_data WHERE way_id = '<way_id>'AND navi_index='<navi_index>';
\* the result has the one column data: column 0 is read as the index, and the
\* blob is read from column 1, which the result does not have (blob1: what
\* the driver hands back for it)
QueryNaviDataWithWayIdAndIndex(s, way_id, navi_index, navi_data, fail, blob1) ==
    IF fail \/ "navi_data" \notin s.db.tables
    THEN [ret |-> FALSE, navi_data |-> navi_data]
    ELSE LET rows == SelectSeq(RowsOf(s.db.navi_data, way_id),
                               LAMBDA r : r.navi_index = navi_index)
         IN  IF Len(rows) = 0 THEN [ret |-> FALSE, navi_data |-> navi_data]
             ELSE [ret |-> TRUE,
                   navi_data |->
                       [navi_index |-> GetUint8Value(BlobToInt(rows[Len(rows)].data)),
                        data |-> blob1]]

\* while (reader->Read()) { ... nodes.emplace_back(node); }
ReadNodes(rows) ==
    [i \in 1..Len(rows) |->
        [node_index |-> GetUint64Value(rows[i].node_index),
         data_line_number |-> GetUint64Value(rows[i].data_line_number),
         node_value |-> rows[i].node_value]]

\* QueryWayNodesWithWayId without its test of nodes.size()
QueryWayNodesWithWayId_NoSizeTest(s, way_id, way_nodes, fail) ==
    IF fail \/ "way_nodes" \notin s.db.tables
    THEN [ret |-> FALSE, way_nodes |-> way_nodes]
    ELSE LET nodes == ReadNodes(RowsOf(s.db.way_nodes, way_id))
         IN  [ret |-> Len(nodes) > 0,
              way_nodes |-> [way_id |-> way_id, nodes |-> nodes]]

\* SELECT * FROM way_nodes WHERE way_id = '<way_id>'
QueryWayNodesWithWayId(s, way_id, way_nodes, fail) ==
    IF fail \/ "way_nodes" \notin s.db.tables
    THEN [ret |-> FALSE, way_nodes |-> way_nodes]
    ELSE LET nodes == ReadNodes(RowsOf(s.db.way_nodes, way_id))
         IN  [ret |-> Len(nodes) > 0,
              way_nodes |-> IF Len(nodes) > 0
                            THEN [way_id |-> way_id, nodes |-> nodes]
                            ELSE way_nodes]

\* SELECT * FROM way_data WHERE way_id = '<way_id>'; at most one row (primary key)
QueryWayDataWithWayId(s, way_id, way_data, fail) ==
    LET hit == {r \in s.db.way_data : r.way_id = to_string(way_id)}
    IN  IF fail \/ "way_data" \notin s.db.tables \/ hit = {}
        THEN [ret |-> FALSE, way_data |-> way_data]
        ELSE LET r == CHOOSE x \in hit : TRUE
             IN  [ret |-> TRUE,
                  way_data |-> [way_id |-> GetUint64Value(r.way_id),
                                raw_data |-> r.raw_data,
                                navi_number |-> GetUint8Value(r.navi_number),
                                navi_table_id |-> GetUint64Value(r.navi_table_id)]]

(***************************************************************************)
(* DBOperator: deletes and updates of the children.                        *)
(***************************************************************************)
\* DELETE FROM way_nodes WHERE way_id=?
DeleteWayNodes(s, way_id, fail) ==
    IF fail \/ "way_nodes" \notin s.db.tables THEN [ret |-> FALSE, s |-> s]
    ELSE [ret |-> TRUE,
          s |-> WithDb(s, [s.db EXCEPT !.way_nodes = RowsNotOf(@, way_id)])]

\* DELETE FROM way_data WHERE way_id=?
DeleteWayData(s, way_id, fail) ==
    IF fail \/ "way_data" \notin s.db.tables THEN [ret |-> FALSE, s |-> s]
    ELSE [ret |-> TRUE,
          s |-> WithDb(s, [s.db EXCEPT
                   !.way_data = {r \in @ : r.way_id # to_string(way_id)}])]

\* DELETE FROM navi_data WHERE way_id=?
DeleteNaviData(s, way_id, fail) ==
    IF fail \/ "navi_data" \notin s.db.tables THEN [ret |-> FALSE, s |-> s]
    ELSE [ret |-> TRUE,
          s |-> WithDb(s, [s.db EXCEPT !.navi_data = RowsNotOf(@, way_id)])]

\* ON DELETE CASCADE of the three child tables, when foreign keys are enforced
CascadeDelete(db, way_id) ==
    IF ~foreign_keys THEN db
    ELSE [db EXCEPT !.way_nodes = RowsNotOf(@, way_id),
                    !.way_data = {r \in @ : r.way_id # to_string(way_id)},
                    !.navi_data = RowsNotOf(@, way_id)]

\* DELETE FROM way WHERE way_id=?
DeleteWayRow(s, way_id, fail) ==
    IF fail \/ "way" \notin s.db.tables THEN [ret |-> FALSE, s |-> s]
    ELSE [ret |-> TRUE,
          s |-> WithDb(s, CascadeDelete(
                   [s.db EXCEPT !.way = {r \in @ : r.way_id # to_string(way_id)}],
                   way_id))]

\* DeleteWay without its DeleteWayData step
DeleteWay_NoWayData(s, way_id, k) ==
    LET w == DeleteWayRow(s, way_id, k = 1)
        n == DeleteWayNodes(w.s, way_id, k = 2)
        v == DeleteNaviData(n.s, way_id, k = 4)
    IN  IF ~w.ret THEN [ret |-> FALSE, s |-> w.s, deletes |-> 1]
        ELSE IF ~n.ret THEN [ret |-> FALSE, s |-> n.s, deletes |-> 2]
        ELSE [ret |-> v.ret, s |-> v.s, deletes |-> 3]

\* DeleteWay that goes on after a failed delete and reports it at the end
DeleteWay_NoAbort(s, way_id, k) ==
    LET w == DeleteWayRow(s, way_id, k = 1)
        n == DeleteWayNodes(w.s, way_id, k = 2)
        d == DeleteWayData(n.s, way_id, k = 3)
        v == DeleteNaviData(d.s, way_id, k = 4)
    IN  [ret |-> w.ret /\ n.ret /\ d.ret /\ v.ret, s |-> v.s,
         deletes |-> IF ~w.ret THEN 1 ELSE IF ~n.ret THEN 2
                     ELSE IF ~d.ret THEN 3 ELSE 4]

\* the driver fails delete statement k (0: none) of way, way_nodes, way_data, navi_data
DeleteWay(s, way_id, k) ==
    LET w == DeleteWayRow(s, way_id, k = 1)
        n == DeleteWayNodes(w.s, way_id, k = 2)
        d == DeleteWayData(n.s, way_id, k = 3)
        v == DeleteNaviData(d.s, way_id, k = 4)
    IN  IF ~w.ret THEN [ret |-> FALSE, s |-> w.s, deletes |-> 1]
        ELSE IF ~n.ret THEN [ret |-> FALSE, s |-> n.s, deletes |-> 2]
        ELSE IF ~d.ret THEN [ret |-> FALSE, s |-> d.s, deletes |-> 3]
        ELSE [ret |-> v.ret, s |-> v.s, deletes |-> 4]

\* UpdateWayNodes that saves whatever its DELETE did
UpdateWayNodes_NoAbort(s, way_id, way_nodes, f) ==
    LET d == DeleteWayNodes(s, way_id, f.del)
        r == SaveWayNodes(d.s, way_nodes, f)
    IN  [ret |-> d.ret /\ r.ret, s |-> r.s, saved |-> TRUE,
         begin_ok |-> r.begin_ok, end_ok |-> r.end_ok]

\* DELETE FROM way_nodes WHERE way_id=?; then SaveWayNodes(way_nodes)
UpdateWayNodes(s, way_id, way_nodes, f) ==
    LET d == DeleteWayNodes(s, way_id, f.del)
        r == SaveWayNodes(d.s, way_nodes, f)
    IN  IF ~d.ret
        THEN [ret |-> FALSE, s |-> d.s, saved |-> FALSE,
              begin_ok |-> FALSE, end_ok |-> FALSE]
        ELSE [ret |-> r.ret, s |-> r.s, saved |-> TRUE,
              begin_ok |-> r.begin_ok, end_ok |-> r.end_ok]

\* DELETE FROM navi_data WHERE way_id=?; then SaveNaviData(navi_info)
UpdateNaviData(s, way_id, navi_info, f) ==
    LET d == DeleteNaviData(s, way_id, f.del)
        r == SaveNaviData(d.s, navi_info, f)
    IN  IF ~d.ret
        THEN [ret |-> FALSE, s |-> d.s, saved |-> FALSE,
              begin_ok |-> FALSE, end_ok |-> FALSE]
        ELSE [ret |-> r.ret, s |-> r.s, saved |-> TRUE,
              begin_ok |-> r.begin_ok, end_ok |-> r.end_ok]

(***************************************************************************)
(* What the driver may do during one call: which calls fail.               *)
(***************************************************************************)
\* a transactional save of n rows: BEGIN fails, the driver fails insert number
\* stmt (0: none), COMMIT/ROLLBACK fails, and a failed COMMIT keeps the
\* transaction open (keep is only read when the end call fails)
TxnPlans(n) ==
    {f \in [begin : BOOLEAN, stmt : 0..n, end : BOOLEAN, keep : BOOLEAN] :
        f.keep => f.end}

\* the same with BEGIN, COMMIT and ROLLBACK succeeding
StmtPlans(n) ==
    {f \in TxnPlans(n) : ~f.begin /\ ~f.end}

\* the plans of a save of n rows: every driver call may fail (txn), or only
\* the row inserts
SavePlans(txn, n) == IF txn THEN TxnPlans(n) ELSE StmtPlans(n)

\* an update: the DELETE fails, and the plan of the save that follows
WithDel(plans) ==
    {[del |-> d, begin |-> f.begin, stmt |-> f.stmt, end |-> f.end, keep |-> f.keep] :
        d \in BOOLEAN, f \in plans}

\* InitDatabase: the catalog query fails, the driver fails CREATE number create
\* (0: none), and the plan of the seeding
\* (the seeding is only reached when no CREATE fails)
InitPlans(plans) ==
    {[catalog |-> c, create |-> 0, begin |-> f.begin, stmt |-> f.stmt,
      end |-> f.end, keep |-> f.keep] : c \in BOOLEAN, f \in plans}
    \cup
    {[catalog |-> c, create |-> k, begin |-> FALSE, stmt |-> 0,
      end |-> FALSE, keep |-> FALSE] : c \in BOOLEAN, k \in 1..kMaxNumberOfTables}

(***************************************************************************)
(* Inputs.                                                                 *)
(***************************************************************************)
WayIds == {1, 2}

\* a way without neighbours, its speeds among the seeded speed limits
PlainWay(id) ==
    [way_id |-> id, pre_way_id |-> 0, next_way_id |-> 0,
     speed_min |-> 1, speed_max |-> 3]

\* the i-th node of a node list
NodeOf(i) ==
    [node_index |-> i - 1, data_line_number |-> 10 * i, node_value |-> <<i>>]

\* the i-th entry of a navigation list
NaviOf(i) ==
    [navi_index |-> i - 1, data |-> <<170, 186 + i>>]

\* the lists <<x(1), ..., x(n)>> for n up to MaxNodes
NodeLists == {[i \in 1..n |-> NodeOf(i)] : n \in 0..MaxNodes}
NaviLists == {[i \in 1..n |-> NaviOf(i)] : n \in 0..MaxNodes}

WayDataOf(id) ==
    [way_id |-> id, raw_data |-> <<170, 187>>, navi_number |-> 1,
     navi_table_id |-> 0]

\* what a caller's output parameter may hold before a query
WayNodesOuts == {[way_id |-> 0, nodes |-> <<>>], [way_id |-> 7, nodes |-> <<NodeOf(2)>>]}
NaviDataOuts == {<<>>, <<NaviOf(2)>>}
NaviEntryOuts == {[navi_index |-> 0, data |-> <<>>], [navi_index |-> 9, data |-> <<1>>]}
WayDataOuts ==
    {[way_id |-> 0, raw_data |-> <<>>, navi_number |-> 0, navi_table_id |-> 0],
     [way_id |-> 7, raw_data |-> <<1>>, navi_number |-> 2, navi_table_id |-> 1]}
WayOuts == {PlainWay(0), [PlainWay(7) EXCEPT !.pre_way_id = 5, !.next_way_id = 6]}

\* the number of rows of way_id in each child table
ChildRowsOf(s, way_id) ==
    [way_nodes |-> Len(RowsOf(s.db.way_nodes, way_id)),
     way_data |-> Cardinality({r \in s.db.way_data : r.way_id = to_string(way_id)}),
     navi_data |-> Len(RowsOf(s.db.navi_data, way_id))]

\* the rows the tables hold, child rows counted together
ChildRows(s) ==
    Len(s.db.way_nodes) + Len(s.db.navi_data) + Cardinality(s.db.way_data)

(***************************************************************************)
(* Actions: one per operation.  A call is made when the caller holds no    *)
(* result (last = NoCall); Return is the caller dropping the result.       *)
(***************************************************************************)
NoCall == [op |-> "none"]

\* issued: the id CreateNewWayId returned last, and whether a way was saved
\* under it since
NoneIssued == [id |-> 0, saved |-> FALSE]

Return ==
    /\ last # NoCall
    /\ last' = NoCall
    /\ UNCHANGED <<sqlite_, foreign_keys, issued>>

CallInitDatabase(plans) ==
    /\ last = NoCall
    /\ \E f \in InitPlans(plans) :
        LET r == InitDatabase(sqlite_, f)
        IN  /\ sqlite_' = r.s
            /\ last' = [op |-> "InitDatabase", ret |-> r.ret, fast |-> r.fast,
                        catalog_failed |-> f.catalog, creates |-> r.creates,
                        filled |-> r.filled, fill |-> r.fill]
    /\ UNCHANGED <<foreign_keys, issued>>

CallCreateTable ==
    /\ last = NoCall
    /\ \E t \in 0..kMaxNumberOfTables, fail \in BOOLEAN :
        LET r == CreateTable(sqlite_, t, fail)
        IN  /\ sqlite_' = r.s
            /\ last' = [op |-> "CreateTable", table_name |-> t, failed |-> fail,
                        ret |-> r.ok, thrown |-> r.thrown]
    /\ UNCHANGED <<foreign_keys, issued>>

CallIsTableExisting ==
    /\ last = NoCall
    /\ \E t \in 0..kMaxNumberOfTables, fail \in BOOLEAN :
        last' = [op |-> "IsTableExisting", table_name |-> t, failed |-> fail,
                 ret |-> IsTableExisting(sqlite_, t, fail)]
    /\ UNCHANGED <<sqlite_, foreign_keys, issued>>

CallSaveWay(ways) ==
    /\ last = NoCall
    /\ \E way \in ways, fail \in BOOLEAN :
        LET r == SaveWay(sqlite_, way, fail)
        IN  /\ sqlite_' = r.s
            /\ last' = [op |-> "SaveWay", way |-> way, ret |-> r.ret]
            /\ issued' = IF r.ret /\ way.way_id = issued.id
                         THEN [issued EXCEPT !.saved = TRUE]
                         ELSE issued
    /\ UNCHANGED foreign_keys

CallUpdateWay(ids, ways) ==
    /\ last = NoCall
    /\ \E way_id \in ids, way \in ways, fail \in BOOLEAN :
        LET r == UpdateWay(sqlite_, way_id, way, fail)
        IN  /\ sqlite_' = r.s
            /\ last' = [op |-> "UpdateWay", way_id |-> way_id, way |-> way,
                        ret |-> r.ret]
    /\ UNCHANGED <<foreign_keys, issued>>

CallQueryWayWithWayId(ids) ==
    /\ last = NoCall
    /\ \E way_id \in ids, out \in WayOuts, fail \in BOOLEAN :
        LET r == QueryWayWithWayId(sqlite_, way_id, out, fail)
        IN  last' = [op |-> "QueryWayWithWayId", way_id |-> way_id, before |-> out,
                     failed |-> fail, ret |-> r.ret, out |-> r.way]
    /\ UNCHANGED <<sqlite_, foreign_keys, issued>>

CallCreateNewWayId ==
    /\ last = NoCall
    /\ \E fail \in BOOLEAN :
        LET r == CreateNewWayId(sqlite_, 0, fail)
        IN  /\ last' = [op |-> "CreateNewWayId", ret |-> r.ret, out |-> r.way_id]
            /\ issued' = IF r.ret THEN [id |-> r.way_id, saved |-> FALSE]
                         ELSE issued
    /\ UNCHANGED <<sqlite_, foreign_keys>>

CallDeleteWay(ids) ==
    /\ last = NoCall
    /\ \E way_id \in ids, k \in 0..4 :
        LET r == DeleteWay(sqlite_, way_id, k)
        IN  /\ sqlite_' = r.s
            /\ last' = [op |-> "DeleteWay", way_id |-> way_id, ret |-> r.ret,
                        deletes |-> r.deletes,
                        children_before |-> ChildRowsOf(sqlite_, way_id)]
    /\ UNCHANGED <<foreign_keys, issued>>

CallSaveWayNodes(ids, txn) ==
    /\ last = NoCall
    /\ \E way_id \in ids, nodes \in NodeLists :
        /\ ChildRows(sqlite_) + Len(nodes) <= MaxRows
        /\ \E f \in SavePlans(txn, Len(nodes)) :
            LET way_nodes == [way_id |-> way_id, nodes |-> nodes]
                r == SaveWayNodes(sqlite_, way_nodes, f)
            IN  /\ sqlite_' = r.s
                /\ last' = [op |-> "SaveWayNodes", arg |-> way_nodes, ret |-> r.ret,
                            failed_insert |-> f.stmt,
                            begin_ok |-> r.begin_ok, end_ok |-> r.end_ok]
    /\ UNCHANGED <<foreign_keys, issued>>

CallSaveNaviData(ids, txn) ==
    /\ last = NoCall
    /\ \E way_id \in ids, navi_data \in NaviLists :
        /\ ChildRows(sqlite_) + Len(navi_data) <= MaxRows
        /\ \E f \in SavePlans(txn, Len(navi_data)) :
            LET navi_info == [way_id |-> way_id, navi_data |-> navi_data]
                r == SaveNaviData(sqlite_, navi_info, f)
            IN  /\ sqlite_' = r.s
                /\ last' = [op |-> "SaveNaviData", arg |-> navi_info, ret |-> r.ret,
                            failed_insert |-> f.stmt,
                            begin_ok |-> r.begin_ok, end_ok |-> r.end_ok]
    /\ UNCHANGED <<foreign_keys, issued>>

CallSaveWayDataIn(datas) ==
    /\ last = NoCall
    /\ ChildRows(sqlite_) + 1 <= MaxRows
    /\ \E way_data \in datas, fail \in BOOLEAN :
        LET r == SaveWayData(sqlite_, way_data, fail)
        IN  /\ sqlite_' = r.s
            /\ last' = [op |-> "SaveWayData", arg |-> way_data, ret |-> r.ret]
    /\ UNCHANGED <<foreign_keys, issued>>

CallSaveWayData(ids) == CallSaveWayDataIn({WayDataOf(way_id) : way_id \in ids})

CallGetNaviTableId ==
    /\ last = NoCall
    /\ \E fail \in BOOLEAN, shard \in ShardQueries, out \in {0, 7} :
        LET r == GetNaviTableId(sqlite_, out, fail, shard)
        IN  last' = [op |-> "GetNaviTableId", before |-> out, failed |-> fail,
                     shard |-> shard, ret |-> r.ret, out |-> r.navi_table_id]
    /\ UNCHANGED <<sqlite_, foreign_keys, issued>>

CallUpdateWayNodes(ids, txn) ==
    /\ last = NoCall
    /\ \E way_id \in ids, own \in ids, nodes \in NodeLists :
        /\ ChildRows(sqlite_) + Len(nodes) <= MaxRows
        /\ \E f \in WithDel(SavePlans(txn, Len(nodes))) :
            LET way_nodes == [way_id |-> own, nodes |-> nodes]
                r == UpdateWayNodes(sqlite_, way_id, way_nodes, f)
            IN  /\ sqlite_' = r.s
                /\ last' = [op |-> "UpdateWayNodes", way_id |-> way_id,
                            arg |-> way_nodes, ret |-> r.ret, saved |-> r.saved,
                            delete_failed |-> f.del, failed_insert |-> f.stmt,
                            begin_ok |-> r.begin_ok, end_ok |-> r.end_ok]
    /\ UNCHANGED <<foreign_keys, issued>>

CallUpdateNaviData(ids, txn) ==
    /\ last = NoCall
    /\ \E way_id \in ids, own \in ids, navi_data \in NaviLists :
        /\ ChildRows(sqlite_) + Len(navi_data) <= MaxRows
        /\ \E f \in WithDel(SavePlans(txn, Len(navi_data))) :
            LET navi_info == [way_id |-> own, navi_data |-> navi_data]
                r == UpdateNaviData(sqlite_, way_id, navi_info, f)
            IN  /\ sqlite_' = r.s
                /\ last' = [op |-> "UpdateNaviData", way_id |-> way_id,
                            arg |-> navi_info, ret |-> r.ret, saved |-> r.saved,
                            delete_failed |-> f.del, failed_insert |-> f.stmt,
                            begin_ok |-> r.begin_ok, end_ok |-> r.end_ok]
    /\ UNCHANGED <<foreign_keys, issued>>

CallQueryWayNodesWithWayId(ids) ==
    /\ last = NoCall
    /\ \E way_id \in ids, out \in WayNodesOuts, fail \in BOOLEAN :
        LET r == QueryWayNodesWithWayId(sqlite_, way_id, out, fail)
        IN  last' = [op |-> "QueryWayNodesWithWayId", way_id |-> way_id,
                     before |-> out, failed |-> fail, ret |-> r.ret,
                     out |-> r.way_nodes]
    /\ UNCHANGED <<sqlite_, foreign_keys, issued>>

CallQueryWayDataWithWayId(ids) ==
    /\ last = NoCall
    /\ \E way_id \in ids, out \in WayDataOuts, fail \in BOOLEAN :
        LET r == QueryWayDataWithWayId(sqlite_, way_id, out, fail)
        IN  last' = [op |-> "QueryWayDataWithWayId", way_id |-> way_id,
                     before |-> out, failed |-> fail, ret |-> r.ret,
                     out |-> r.way_data]
    /\ UNCHANGED <<sqlite_, foreign_keys, issued>>

CallQueryNaviDataWithWayId(ids) ==
    /\ last = NoCall
    /\ \E way_id \in ids, out \in NaviDataOuts, fail \in BOOLEAN :
        LET r == QueryNaviDataWithWayId(sqlite_, way_id, out, fail)
        IN  last' = [op |-> "QueryNaviDataWithWayId", way_id |-> way_id,
                     before |-> out, failed |-> fail, ret |-> r.ret,
                     out |-> r.navi_data]
    /\ UNCHANGED <<sqlite_, foreign_keys, issued>>

\* what reading the blob of a column the result does not have may give: nothing,
\* what the output held, or a stored blob
OutOfRangeBlobs ==
    {<<>>} \cup {o.data : o \in NaviEntryOuts}
           \cup {NaviOf(i).data : i \in 1..MaxNodes}

CallQueryNaviDataWithWayIdAndIndex(ids) ==
    /\ last = NoCall
    /\ \E way_id \in ids, navi_index \in 0..(MaxNodes - 1), out \in NaviEntryOuts,
          fail \in BOOLEAN, blob1 \in OutOfRangeBlobs :
        LET r == QueryNaviDataWithWayIdAndIndex(sqlite_, way_id, navi_index, out,
                                                fail, blob1)
        IN  last' = [op |-> "QueryNaviDataWithWayIdAndIndex", way_id |-> way_id,
                     navi_index |-> navi_index, before |-> out, failed |-> fail,
                     ret |-> r.ret, out |-> r.navi_data]
    /\ UNCHANGED <<sqlite_, foreign_keys, issued>>

(***************************************************************************)
(* Two writers on the same store.  Each runs CreateNewWayId and then        *)
(* SaveWay with the id it was given; a call is one SQL statement, so the    *)
(* writers interleave call by call.  Here `issued` records, for the         *)
(* history: held[w], the id writer w was given last and whether w saved a   *)
(* way under it; ids, the ids given so far; dup, whether an id was given    *)
(* twice; overlapped, whether an id was given while an earlier one was not  *)
(* yet saved.                                                               *)
(***************************************************************************)
Writers == {1, 2}

\* a writer that was given no id yet; refused: its SaveWay returned false
NoneHeld == [id |-> 0, saved |-> FALSE, refused |-> FALSE]

NoneIssuedTo ==
    [held |-> [w \in Writers |-> NoneHeld], ids |-> {}, dup |-> FALSE,
     overlapped |-> FALSE]

\* whether some writer holds an id it has not saved a way under
Pending(h) == \E w \in Writers : h[w].id # 0 /\ ~h[w].saved

WriterCreateNewWayId(w) ==
    /\ last = NoCall
    /\ issued.held[w].id = 0 \/ issued.held[w].saved \/ issued.held[w].refused
    /\ \E fail \in BOOLEAN :
        LET r == CreateNewWayId(sqlite_, issued.held[w].id, fail)
        IN  /\ r.ret => r.way_id <= MaxAllocId
            /\ last' = [op |-> "CreateNewWayId", writer |-> w, ret |-> r.ret,
                        out |-> r.way_id]
            /\ issued' =
                 IF ~r.ret THEN issued
                 ELSE [held |-> [issued.held EXCEPT ![w] =
                                   [id |-> r.way_id, saved |-> FALSE,
                                    refused |-> FALSE]],
                       ids |-> issued.ids \cup {r.way_id},
                       dup |-> issued.dup \/ r.way_id \in issued.ids,
                       overlapped |-> issued.overlapped \/ Pending(issued.held)]
    /\ UNCHANGED <<sqlite_, foreign_keys>>

WriterSaveWay(w) ==
    /\ last = NoCall
    /\ issued.held[w].id # 0 /\ ~issued.held[w].saved /\ ~issued.held[w].refused
    /\ \E fail \in BOOLEAN :
        LET way == PlainWay(issued.held[w].id)
            r == SaveWay(sqlite_, way, fail)
        IN  /\ sqlite_' = r.s
            /\ last' = [op |-> "SaveWay", writer |-> w, way |-> way, ret |-> r.ret]
            /\ issued' = [issued EXCEPT !.held[w].saved = r.ret,
                                        !.held[w].refused = ~r.ret]
    /\ UNCHANGED foreign_keys

(***************************************************************************)
(* Specifications.                                                         *)
(***************************************************************************)
\* a new database file, just opened by the constructor
InitFresh ==
    /\ sqlite_ = Closed(EmptyDb)
    /\ foreign_keys \in BOOLEAN
    /\ last = NoCall
    /\ issued = NoneIssued

\* the content InitDatabase leaves on a new file when nothing fails
SeededDb ==
    [EmptyDb EXCEPT
        !.tables = {kTableNames[i] : i \in 1..kMaxNumberOfTables},
        !.speed_limit = {[id |-> i, speed |-> speed_base + speed_step * (i - 1)] :
                            i \in 1..kSpeedLimitRows}]

\* a database file initialised by an earlier run, opened by the constructor
InitSeeded ==
    /\ sqlite_ = Closed(SeededDb)
    /\ foreign_keys \in BOOLEAN
    /\ last = NoCall
    /\ issued = NoneIssued

\* table lifecycle and initialisation, every driver call allowed to fail
NextInit ==
    \/ CallInitDatabase(TxnPlans(kSpeedLimitRows))
    \/ CallCreateTable
    \/ CallIsTableExisting
    \/ CallSaveWay({PlainWay(1)})
    \/ Return

SpecInit == InitFresh /\ [][NextInit]_vars

\* repeated InitDatabase calls on a new file, any statement allowed to fail
NextReinit ==
    \/ CallInitDatabase(StmtPlans(kSpeedLimitRows))
    \/ CallIsTableExisting
    \/ Return

SpecReinit == InitFresh /\ [][NextReinit]_vars

\* the allocator over a way table filled with arbitrary ids
AllocIds == 1..MaxAllocId

NextAlloc ==
    \/ CallSaveWay({PlainWay(id) : id \in AllocIds})
    \/ CallCreateNewWayId
    \/ Return

SpecAlloc == InitSeeded /\ [][NextAlloc]_vars

\* a single writer: every way is saved under the id CreateNewWayId just issued,
\* and the next id is asked for once that save succeeded
NextWriter ==
    \/ ((issued.id = 0 \/ issued.saved) /\ CallCreateNewWayId)
    \/ (issued.id # 0 /\ ~issued.saved /\ CallSaveWay({PlainWay(issued.id)}))
    \/ CallDeleteWay(AllocIds)
    \/ Return

SpecWriter == InitSeeded /\ [][NextWriter]_vars

\* ways with and without neighbours, one- and two-digit neighbour ids
Links == {0, 2, 10}
LinkedWays ==
    {[PlainWay(id) EXCEPT !.pre_way_id = p, !.next_way_id = n] :
        id \in WayIds, p \in Links, n \in Links}

NextWay ==
    \/ CallSaveWay(LinkedWays)
    \/ CallUpdateWay(WayIds, LinkedWays)
    \/ CallQueryWayWithWayId(WayIds)
    \/ CallDeleteWay(WayIds)
    \/ Return

SpecWay == InitSeeded /\ [][NextWay]_vars

\* the transactional saves on a new file: any statement may fail, and so may
\* the BEGIN, COMMIT and ROLLBACK of the aggregate saves
NextSave ==
    \/ CallInitDatabase(StmtPlans(kSpeedLimitRows))
    \/ CallSaveWay({PlainWay(id) : id \in WayIds})
    \/ CallSaveWayNodes(WayIds, TRUE)
    \/ CallSaveNaviData(WayIds, TRUE)
    \/ Return

SpecSave == InitFresh /\ [][NextSave]_vars

\* the record repository on an initialised database, any statement allowed
\* to fail
NextStore ==
    \/ CallSaveWay({PlainWay(id) : id \in WayIds})
    \/ CallSaveWayNodes(WayIds, FALSE)
    \/ CallSaveWayData(WayIds)
    \/ CallSaveNaviData(WayIds, FALSE)
    \/ CallUpdateWayNodes(WayIds, FALSE)
    \/ CallUpdateNaviData(WayIds, FALSE)
    \/ CallDeleteWay(WayIds)
    \/ CallQueryWayWithWayId(WayIds)
    \/ CallQueryWayNodesWithWayId(WayIds)
    \/ CallQueryWayDataWithWayId(WayIds)
    \/ CallQueryNaviDataWithWayId(WayIds)
    \/ CallQueryNaviDataWithWayIdAndIndex(WayIds)
    \/ Return

SpecStore == InitSeeded /\ [][NextStore]_vars

\* shard selection over way_data rows of any navi_table_id
ShardIds == 0..MaxShardId
ShardedWayData ==
    {[WayDataOf(id) EXCEPT !.navi_table_id = t] : id \in WayIds, t \in ShardIds}

NextShard ==
    \/ CallSaveWay({PlainWay(id) : id \in WayIds})
    \/ CallSaveWayDataIn(ShardedWayData)
    \/ CallGetNaviTableId
    \/ CallDeleteWay(WayIds)
    \/ Return

SpecShard == InitSeeded /\ [][NextShard]_vars

\* saves and updates of one way with every driver call allowed to fail
NextUpdate ==
    \/ CallSaveWay({PlainWay(1)})
    \/ CallSaveWayNodes({1}, TRUE)
    \/ CallSaveNaviData({1}, TRUE)
    \/ CallUpdateWayNodes({1}, TRUE)
    \/ CallUpdateNaviData({1}, TRUE)
    \/ Return

SpecUpdate == InitSeeded /\ [][NextUpdate]_vars

\* two writers allocating and saving on an initialised store
InitRace ==
    /\ sqlite_ = Closed(SeededDb)
    /\ foreign_keys \in BOOLEAN
    /\ last = NoCall
    /\ issued = NoneIssuedTo

NextRace ==
    \/ \E w \in Writers : WriterCreateNewWayId(w)
    \/ \E w \in Writers : WriterSaveWay(w)
    \/ Return

SpecRace == InitRace /\ [][NextRace]_vars

(***************************************************************************)
(* Claims.                                                                 *)
(***************************************************************************)
AllTables == {kTableNames[i] : i \in 1..kMaxNumberOfTables}

\* C3 (as claimed): after any InitDatabase call that returns true, all five
\* tables exist and speed_limit holds exactly the 13 rows (id, 30 + 10*(id-1)),
\* whatever calls came before, an earlier failed InitDatabase included.
C3_SeededAfterEveryInit ==
    (last.op = "InitDatabase" /\ last.ret) =>
        /\ sqlite_.db.tables = AllTables
        /\ sqlite_.db.speed_limit = SeededDb.speed_limit

\* C4 (as claimed): whenever the way table exists, InitDatabase returns true
\* without issuing a CREATE TABLE or an INSERT and changes nothing.
C4_FastPathWheneverWayExists ==
    [][(last'.op = "InitDatabase" /\ "way" \in sqlite_.db.tables) =>
         /\ last'.ret /\ last'.creates = 0 /\ ~last'.filled
         /\ sqlite_' = sqlite_]_vars

\* C4 (amended): whenever the way table exists and the catalog query of
\* IsTableExisting does not fail, InitDatabase returns true without issuing a
\* CREATE TABLE or an INSERT, and the tables and all their rows are unchanged.
C4_FastPathIdempotent ==
    [][(/\ last'.op = "InitDatabase"
        /\ "way" \in sqlite_.db.tables
        /\ ~last'.catalog_failed) =>
         /\ last'.ret /\ last'.creates = 0 /\ ~last'.filled
         /\ sqlite_' = sqlite_]_vars

\* C4 witness: a call on the fast path of a fully seeded database that also
\* holds a way row.
C4_Witness ==
    /\ last.op = "InitDatabase" /\ last.fast /\ last.ret
    /\ sqlite_.db.tables = AllTables
    /\ sqlite_.db.speed_limit = SeededDb.speed_limit
    /\ sqlite_.db.way # {}

\* the way ids stored, as numbers
StoredWayIds == {GetUint64Value(r.way_id) : r \in sqlite_.db.way}

\* C5 (as claimed): CreateNewWayId returns 1 on an empty way table and otherwise
\* an id strictly greater than every stored way_id.
C5_NewIdAboveEveryStoredId ==
    (last.op = "CreateNewWayId" /\ last.ret) =>
        /\ sqlite_.db.way = {} => last.out = 1
        /\ \A id \in StoredWayIds : last.out > id

\* C6 (as claimed): under a single writer the ids CreateNewWayId returns are
\* strictly increasing, also after the way with the greatest id was deleted.
C6_IssuedIdsIncrease ==
    [][(last'.op = "CreateNewWayId" /\ last'.ret /\ issued.id # 0) =>
         issued'.id > issued.id]_vars

\* the row of way_id in the way table, if any
WayRowsOf(way_id) == {r \in sqlite_.db.way : r.way_id = to_string(way_id)}

\* the way_id a successful SaveWay / UpdateWay call wrote to
WrittenWayId == IF last.op = "SaveWay" THEN last.way.way_id ELSE last.way_id

\* C7: after SaveWay(w), or UpdateWay(id, w) on an existing row, returned true,
\* the row holds NULL for pre_way_id (next_way_id) exactly when the field of w
\* is 0 and its value otherwise, and QueryWayWithWayId reads both fields back
\* equal to those of w, whatever the output parameter held.
C7_SentinelRoundTrip ==
    (/\ last.op \in {"SaveWay", "UpdateWay"}
     /\ last.ret
     /\ WayRowsOf(WrittenWayId) # {}) =>
        /\ \A r \in WayRowsOf(WrittenWayId) :
            /\ (r.pre_way_id = SqlNull) <=> (last.way.pre_way_id = 0)
            /\ (r.next_way_id = SqlNull) <=> (last.way.next_way_id = 0)
            /\ last.way.pre_way_id # 0 =>
                   r.pre_way_id = SqlText(to_string(last.way.pre_way_id))
            /\ last.way.next_way_id # 0 =>
                   r.next_way_id = SqlText(to_string(last.way.next_way_id))
        /\ \A out \in WayOuts :
            LET q == QueryWayWithWayId(sqlite_, WrittenWayId, out, FALSE)
            IN  /\ q.ret
                /\ q.way.pre_way_id = last.way.pre_way_id
                /\ q.way.next_way_id = last.way.next_way_id

\* C7 witness: an UpdateWay of an existing row with pre_way_id 0 and a
\* two-digit next_way_id.
C7_Witness ==
    /\ last.op = "UpdateWay" /\ last.ret
    /\ WayRowsOf(last.way_id) # {}
    /\ last.way.pre_way_id = 0
    /\ last.way.next_way_id = 10

\* the rows a successful SaveWayNodes (SaveNaviData) call appended, decoded
AppendedNodes(way_nodes, n) ==
    ReadNodes(SubSeq(sqlite_'.db.way_nodes, Len(sqlite_.db.way_nodes) + 1,
                     Len(sqlite_.db.way_nodes) + n))
AppendedNavi(navi_info, n) ==
    ReadNaviData(SubSeq(sqlite_'.db.navi_data, Len(sqlite_.db.navi_data) + 1,
                        Len(sqlite_.db.navi_data) + n))

\* what the claim C1 says of a SaveWayNodes, SaveNaviData or (through
\* InitDatabase) FillTableSpeedLimit step: true with every row of the batch
\* stored and nothing else changed, or false with the content as it was
BatchStep ==
    /\ last'.op = "SaveWayNodes" =>
          IF last'.ret
          THEN /\ sqlite_'.db =
                    [sqlite_.db EXCEPT !.way_nodes = sqlite_'.db.way_nodes]
               /\ Len(sqlite_'.db.way_nodes) =
                    Len(sqlite_.db.way_nodes) + Len(last'.arg.nodes)
               /\ SubSeq(sqlite_'.db.way_nodes, 1, Len(sqlite_.db.way_nodes)) =
                    sqlite_.db.way_nodes
               /\ AppendedNodes(last'.arg, Len(last'.arg.nodes)) = last'.arg.nodes
          ELSE sqlite_'.db = sqlite_.db
    /\ last'.op = "SaveNaviData" =>
          IF last'.ret
          THEN /\ sqlite_'.db =
                    [sqlite_.db EXCEPT !.navi_data = sqlite_'.db.navi_data]
               /\ Len(sqlite_'.db.navi_data) =
                    Len(sqlite_.db.navi_data) + Len(last'.arg.navi_data)
               /\ SubSeq(sqlite_'.db.navi_data, 1, Len(sqlite_.db.navi_data)) =
                    sqlite_.db.navi_data
               /\ AppendedNavi(last'.arg, Len(last'.arg.navi_data)) =
                    last'.arg.navi_data
          ELSE sqlite_'.db = sqlite_.db
    /\ (last'.op = "InitDatabase" /\ last'.filled) =>
          /\ last'.ret = last'.fill.ret
          /\ IF last'.fill.ret
             THEN sqlite_'.db =
                    [sqlite_.db EXCEPT !.tables = AllTables,
                                       !.speed_limit = SeededDb.speed_limit]
             ELSE sqlite_'.db = [sqlite_.db EXCEPT !.tables = AllTables]

\* whether the BEGIN and the COMMIT or ROLLBACK of the batch step succeeded
BatchTransactionOk ==
    IF last'.op = "InitDatabase"
    THEN last'.filled => (last'.fill.begin_ok /\ last'.fill.end_ok)
    ELSE last'.op \in {"SaveWayNodes", "SaveNaviData"} =>
            (last'.begin_ok /\ last'.end_ok)

\* C1 (as claimed): SaveWayNodes, SaveNaviData and FillTableSpeedLimit,
\* whichever row insert fails, either return true with every row of the batch
\* stored, or return false with the table content equal to its content before
\* the call.
C1_BatchAllOrNothing == [][BatchStep]_vars

\* the same when no BEGIN, COMMIT or ROLLBACK of the batch fails
BatchAllOrNothingWhenTransactionOk == [][BatchTransactionOk => BatchStep]_vars

\* C2: whenever DeleteWay(w) returned true, no row of w is left in way,
\* way_nodes, way_data or navi_data, and the four whole-record queries for w
\* return false, with and without foreign keys enforced by the store.
C2_DeleteCascade ==
    (last.op = "DeleteWay" /\ last.ret) =>
        LET w == to_string(last.way_id)
        IN  /\ \A r \in sqlite_.db.way : r.way_id # w
            /\ \A i \in 1..Len(sqlite_.db.way_nodes) : sqlite_.db.way_nodes[i].way_id # w
            /\ \A r \in sqlite_.db.way_data : r.way_id # w
            /\ \A i \in 1..Len(sqlite_.db.navi_data) : sqlite_.db.navi_data[i].way_id # w
            /\ \A fail \in BOOLEAN :
                /\ \A out \in WayOuts :
                     ~QueryWayWithWayId(sqlite_, last.way_id, out, fail).ret
                /\ \A out \in WayNodesOuts :
                     ~QueryWayNodesWithWayId(sqlite_, last.way_id, out, fail).ret
                /\ \A out \in WayDataOuts :
                     ~QueryWayDataWithWayId(sqlite_, last.way_id, out, fail).ret
                /\ \A out \in NaviDataOuts :
                     ~QueryNaviDataWithWayId(sqlite_, last.way_id, out, fail).ret

\* C2 witness: a successful DeleteWay, without foreign keys enforced, of a way
\* that had rows in child tables, rows of another way being left.
C2_Witness ==
    /\ last.op = "DeleteWay" /\ last.ret /\ ~foreign_keys
    /\ last.children_before.way_data > 0
    /\ last.children_before.way_nodes + last.children_before.navi_data > 0
    /\ ChildRows(sqlite_) > 0

\* C8 (as claimed, for a non-empty aggregate): after a successful SaveWayNodes,
\* SaveWayData or SaveNaviData for a way_id without stored children, the
\* whole-aggregate query returns true and an output equal to what was saved,
\* whatever the output parameter held before.
C8_SaveQueryRoundTrip ==
    [][/\ (/\ last'.op = "SaveWayNodes" /\ last'.ret
           /\ last'.arg.nodes # <<>>
           /\ RowsOf(sqlite_.db.way_nodes, last'.arg.way_id) = <<>>) =>
              \A out \in WayNodesOuts :
                  LET q == QueryWayNodesWithWayId(sqlite_', last'.arg.way_id, out, FALSE)
                  IN  q.ret /\ q.way_nodes = last'.arg
       /\ (last'.op = "SaveWayData" /\ last'.ret) =>
              \A out \in WayDataOuts :
                  LET q == QueryWayDataWithWayId(sqlite_', last'.arg.way_id, out, FALSE)
                  IN  q.ret /\ q.way_data = last'.arg
       /\ (/\ last'.op = "SaveNaviData" /\ last'.ret
           /\ last'.arg.navi_data # <<>>
           /\ RowsOf(sqlite_.db.navi_data, last'.arg.way_id) = <<>>) =>
              \A out \in NaviDataOuts :
                  LET q == QueryNaviDataWithWayId(sqlite_', last'.arg.way_id, out, FALSE)
                  IN  q.ret /\ q.navi_data = last'.arg.navi_data
      ]_vars

\* C9 (as claimed): after UpdateWayNodes(w, way_nodes) (UpdateNaviData(w,
\* navi_info)) returned true, the rows stored for w are exactly the new list, in
\* order, for every w and every aggregate.
C9_UpdateReplaces ==
    /\ (last.op = "UpdateWayNodes" /\ last.ret) =>
          ReadNodes(RowsOf(sqlite_.db.way_nodes, last.way_id)) = last.arg.nodes
    /\ (last.op = "UpdateNaviData" /\ last.ret) =>
          ReadNaviData(RowsOf(sqlite_.db.navi_data, last.way_id)) = last.arg.navi_data

\* the rows a query call matched
MatchedRows ==
    CASE last.op = "QueryWayWithWayId" ->
           Cardinality(WayRowsOf(last.way_id))
      [] last.op = "QueryWayNodesWithWayId" ->
           Len(RowsOf(sqlite_.db.way_nodes, last.way_id))
      [] last.op = "QueryWayDataWithWayId" ->
           Cardinality({r \in sqlite_.db.way_data : r.way_id = to_string(last.way_id)})
      [] last.op = "QueryNaviDataWithWayId" ->
           Len(RowsOf(sqlite_.db.navi_data, last.way_id))
      [] last.op = "QueryNaviDataWithWayIdAndIndex" ->
           Len(SelectSeq(RowsOf(sqlite_.db.navi_data, last.way_id),
                         LAMBDA r : r.navi_index = last.navi_index))

QueryOps ==
    {"QueryWayWithWayId", "QueryWayNodesWithWayId", "QueryWayDataWithWayId",
     "QueryNaviDataWithWayId", "QueryNaviDataWithWayIdAndIndex"}

\* C10: each of the five Query*WithWayId operations returns true exactly when
\* its query did not fail and matched at least one row, and when it returns
\* false the caller's output parameter is what it was before the call.
C10_QueryFlag ==
    last.op \in QueryOps =>
        /\ last.ret <=> (~last.failed /\ MatchedRows > 0)
        /\ ~last.ret => last.out = last.before

\* C10 witness: a QueryWayNodesWithWayId that matched no row while the table
\* held rows of another way, the caller's non-empty output left as it was.
C10_Witness ==
    /\ last.op = "QueryWayNodesWithWayId" /\ ~last.ret /\ ~last.failed
    /\ last.before.nodes # <<>>
    /\ Len(sqlite_.db.way_nodes) > 0

\* the navi_table_id values stored in way_data, as numbers
StoredNaviTableIds == {GetUint64Value(r.navi_table_id) : r \in sqlite_.db.way_data}

\* the greatest of them, 0 when way_data is empty
GreatestNaviTableId ==
    IF StoredNaviTableIds = {} THEN 0
    ELSE CHOOSE m \in StoredNaviTableIds : \A n \in StoredNaviTableIds : n <= m

\* C11 (as claimed): when both queries succeed, GetNaviTableId returns true
\* and the greatest navi_table_id stored in way_data (0 when way_data is empty)
\* if the shard table of that id holds fewer than 10000 rows, and that id + 1
\* otherwise.
C11_ShardSelection ==
    (last.op = "GetNaviTableId" /\ ~last.failed /\ last.shard.ok) =>
        /\ last.ret
        /\ last.out = IF last.shard.count < kMaxRowNumberOfDBTable
                      THEN GreatestNaviTableId
                      ELSE GreatestNaviTableId + 1

\* the same while every stored navi_table_id has one digit
ShardSelectionBelowTen ==
    (\A n \in StoredNaviTableIds : n < 10) => C11_ShardSelection

\* C12 (as claimed, for the operations that make transaction calls): a
\* SaveWayNodes, SaveNaviData or FillTableSpeedLimit (run by InitDatabase)
\* returns true only if its BeginTransaction and its CommitTransaction succeeded
\* and the driver failed none of its inserts.
C12_FailuresSurface ==
    /\ (last.op \in {"SaveWayNodes", "SaveNaviData"} /\ last.ret) =>
          /\ last.begin_ok /\ last.end_ok
          /\ last.failed_insert = 0
    /\ (last.op = "InitDatabase" /\ last.filled /\ last.ret) =>
          /\ last.fill.begin_ok /\ last.fill.end_ok

\* what C13 says of a valid table index: CreateTable of a table that does not
\* exist, the driver not failing, returns true and IsTableExisting then
\* returns true
ValidIndexStep ==
    (/\ last'.op = "CreateTable" /\ last'.table_name < kMaxNumberOfTables
     /\ kTableNames[last'.table_name + 1] \notin sqlite_.db.tables
     /\ ~last'.failed) =>
        /\ last'.ret /\ ~last'.thrown
        /\ IsTableExisting(sqlite_', last'.table_name, FALSE)

\* what C13 says of an index at or beyond kMaxNumberOfTables: CreateTable and
\* IsTableExisting return false, nothing is thrown and no table is created
InvalidIndexStep ==
    /\ (last'.op = "CreateTable" /\ last'.table_name >= kMaxNumberOfTables) =>
          /\ ~last'.ret /\ ~last'.thrown
          /\ sqlite_' = sqlite_
    /\ (last'.op = "IsTableExisting" /\ last'.table_name >= kMaxNumberOfTables) =>
          /\ ~last'.ret
          /\ sqlite_' = sqlite_

\* C13 (as claimed): for each valid table index, CreateTable(t) of a table that
\* does not exist returns true and a following IsTableExisting(t) returns true;
\* for an index at or beyond kMaxNumberOfTables both return false, without an
\* exception and without creating a table.
C13_TableLifecycle == [][ValidIndexStep /\ InvalidIndexStep]_vars

\* the part of C13 about the valid indices
TableLifecycleValidIndex == [][ValidIndexStep]_vars

\* the first n tables of the creation order
FirstTables(n) == {kTableNames[i] : i \in 1..n}

WayPart(db, way_id) ==
    [way |-> {r \in db.way : r.way_id = to_string(way_id)},
     way_nodes |-> RowsOf(db.way_nodes, way_id),
     way_data |-> {r \in db.way_data : r.way_id = to_string(way_id)},
     navi_data |-> RowsOf(db.navi_data, way_id)]
OtherPart(db, way_id) ==
    [db EXCEPT !.way = {r \in @ : r.way_id # to_string(way_id)},
               !.way_nodes = RowsNotOf(@, way_id),
               !.way_data = {r \in @ : r.way_id # to_string(way_id)},
               !.navi_data = RowsNotOf(@, way_id)]
NoRows == [way |-> {}, way_nodes |-> <<>>, way_data |-> {}, navi_data |-> <<>>]

\* the tables in the order DeleteWay issues its DELETE statements
DeleteOrder == <<"way", "way_nodes", "way_data", "navi_data">>

\* a DeleteWay step: rows of other ways are unchanged, true is returned after
\* four successful deletes, and after a failure at statement last'.deletes the
\* rows of way_id are gone from the tables of the earlier statements (from
\* every table when gone(i) says so) and in place in the others
DeleteWayStep(gone(_)) ==
    last'.op = "DeleteWay" =>
        LET w == last'.way_id
            before == WayPart(sqlite_.db, w)
            after == WayPart(sqlite_'.db, w)
        IN  /\ OtherPart(sqlite_'.db, w) = OtherPart(sqlite_.db, w)
            /\ last'.ret => (last'.deletes = 4 /\ after = NoRows)
            /\ ~last'.ret =>
                 \A i \in 1..4 :
                    after[DeleteOrder[i]] =
                       IF i < last'.deletes \/ gone(i)
                       THEN NoRows[DeleteOrder[i]]
                       ELSE before[DeleteOrder[i]]

NeverGone(i) == FALSE
GoneByCascade(i) == foreign_keys /\ last'.deletes > 1

\* C15 (as claimed): DeleteWay(w) deletes the way row, then way_nodes, way_data
\* and navi_data in that order; the first DELETE that fails makes it return
\* false with no later DELETE issued, so the rows of w in the tables not yet
\* reached are left in place; rows of other way ids are never changed.
C15_DeleteOrderAbort == [][DeleteWayStep(NeverGone)]_vars

\* C15 (amended): the same, except that when the store enforces foreign keys
\* the DELETE of the way row has already removed every child row of w (ON
\* DELETE CASCADE), so after a later failure no row of w is left.
C15_DeleteOrderAbortCascade == [][DeleteWayStep(GoneByCascade)]_vars

\* C15 witness: without foreign keys enforced, a DeleteWay whose third
\* statement (way_data) failed after the way_nodes rows were deleted; the
\* way_data row is in place.
C15_Witness ==
    /\ last.op = "DeleteWay" /\ ~last.ret /\ last.deletes = 3
    /\ ~foreign_keys
    /\ last.children_before.way_nodes > 0
    /\ last.children_before.way_data > 0
    /\ WayPart(sqlite_.db, last.way_id).way_data # {}
    /\ WayPart(sqlite_.db, last.way_id).way_nodes = <<>>

\* C16: when the DELETE statement of UpdateWayNodes or UpdateNaviData fails,
\* the operation returns false, no transaction is begun and no INSERT is
\* issued: the connection and every stored row are as before the call.
C16_UpdateAbortsOnDeleteFailure ==
    [][(/\ last'.op \in {"UpdateWayNodes", "UpdateNaviData"}
        /\ last'.delete_failed) =>
          /\ ~last'.ret /\ ~last'.saved
          /\ sqlite_' = sqlite_]_vars

\* C16 witness: an UpdateWayNodes with a non-empty new list whose DELETE
\* failed, the old rows of the way, different from the new list, in place.
C16_Witness ==
    /\ last.op = "UpdateWayNodes" /\ last.delete_failed /\ ~last.ret
    /\ last.arg.nodes # <<>>
    /\ last.arg.way_id = last.way_id
    /\ RowsOf(sqlite_.db.way_nodes, last.way_id) # <<>>
    /\ ReadNodes(RowsOf(sqlite_.db.way_nodes, last.way_id)) # last.arg.nodes

\* C17: with two writers, CreateNewWayId reserves nothing: as soon as an id is
\* given while an earlier one has not been saved, some id has been given twice
\* (uniqueness needs each allocation's SaveWay to complete before the next
\* allocation reads the maximum).
C17_OverlapGivesDuplicate == issued.overlapped => issued.dup

\* C17 witness: both writers hold the same id, read from the same maximum of a
\* non-empty way table, neither having saved yet.
C17_Witness ==
    /\ last.op = "CreateNewWayId" /\ last.ret
    /\ sqlite_.db.way # {}
    /\ issued.held[1].id = issued.held[2].id
    /\ issued.held[1].id = last.out
    /\ ~issued.held[1].saved /\ ~issued.held[2].saved
    /\ ~issued.held[1].refused /\ ~issued.held[2].refused

\* the blobs stored for (way_id, navi_index)
StoredNaviBlobs(way_id, navi_index) ==
    {sqlite_.db.navi_data[i].data :
        i \in {j \in 1..Len(sqlite_.db.navi_data) :
                 /\ sqlite_.db.navi_data[j].way_id = to_string(way_id)
                 /\ sqlite_.db.navi_data[j].navi_index = navi_index}}

\* C18 (as claimed): for every (way_id, navi_index) entry stored by
\* SaveNaviData, the single-entry QueryNaviDataWithWayId, its query not
\* failing, returns true with out.navi_index equal to the requested navi_index
\* and out.data equal to the saved blob.
C18_SingleEntryRoundTrip ==
    (/\ last.op = "QueryNaviDataWithWayIdAndIndex" /\ ~last.failed
     /\ StoredNaviBlobs(last.way_id, last.navi_index) # {}) =>
        /\ last.ret
        /\ last.out.navi_index = last.navi_index
        /\ last.out.data \in StoredNaviBlobs(last.way_id, last.navi_index)

\* the same for the index alone, whatever the read of column 1 gives
SingleEntryIndexRoundTrip ==
    (/\ last.op = "QueryNaviDataWithWayIdAndIndex" /\ ~last.failed
     /\ StoredNaviBlobs(last.way_id, last.navi_index) # {}) =>
        /\ last.ret
        /\ last.out.navi_index = last.navi_index

\* the way_id values of the rows of the three child tables
ChildWayIds ==
    {sqlite_.db.way_nodes[i].way_id : i \in 1..Len(sqlite_.db.way_nodes)}
        \cup {r.way_id : r \in sqlite_.db.way_data}
        \cup {sqlite_.db.navi_data[i].way_id : i \in 1..Len(sqlite_.db.navi_data)}

\* C19 (as claimed): in every state reached by Save*, Update* and Delete*
\* operations, any of their statements allowed to fail, every row of
\* way_nodes, way_data and navi_data has a way_id present in the way table.
C19_NoOrphanRows == ChildWayIds \subseteq {r.way_id : r \in sqlite_.db.way}

\* the same where the store enforces the REFERENCES clauses of the schema
NoOrphanRowsWhenEnforced == foreign_keys => ChildWayIds \subseteq {r.way_id : r \in sqlite_.db.way}

\* a result of an operation that brackets its inserts in a transaction:
\* SaveWayNodes, SaveNaviData, or an InitDatabase reaching FillTableSpeedLimit
Bracketed(l) ==
    \/ l.op \in {"SaveWayNodes", "SaveNaviData"}
    \/ l.op = "InitDatabase" /\ l.filled

\* whether its CommitTransaction or RollbackTransaction succeeded
EndOk(l) == IF l.op = "InitDatabase" THEN l.fill.end_ok ELSE l.end_ok

\* C20 (as claimed): SaveWayNodes, SaveNaviData and FillTableSpeedLimit each
\* issue one BeginTransaction and then one CommitTransaction or
\* RollbackTransaction, so no such call begins a transaction while one is
\* open and none returns with a transaction left open; the other operations
\* leave the transaction state as it was.
C20_TransactionBracketing ==
    [][/\ Bracketed(last') => ~sqlite_.in_txn /\ ~sqlite_'.in_txn
       /\ ~Bracketed(last') => sqlite_'.in_txn = sqlite_.in_txn]_vars

\* the same for the calls whose COMMIT or ROLLBACK succeeds, and for the
\* other operations
TransactionClosedWhenEndOk ==
    [][/\ (Bracketed(last') /\ EndOk(last')) => ~sqlite_'.in_txn
       /\ ~Bracketed(last') => sqlite_'.in_txn = sqlite_.in_txn]_vars

\* the rows an update is about, in the connection s: those of its way_id in
\* the table of its operation
UpdatedRows(s, l) ==
    IF l.op = "UpdateWayNodes" THEN RowsOf(s.db.way_nodes, l.way_id)
    ELSE RowsOf(s.db.navi_data, l.way_id)

\* an UpdateWayNodes(w, agg) or UpdateNaviData(w, agg) with agg.way_id = w
\* that returned false
FailedUpdate(l) ==
    /\ l.op \in {"UpdateWayNodes", "UpdateNaviData"}
    /\ l.arg.way_id = l.way_id
    /\ ~l.ret

\* C21 (as claimed): when UpdateWayNodes(w, agg) or UpdateNaviData(w, agg)
\* with agg.way_id = w returns false, the rows stored for w are the complete
\* old list (the delete failed) or none (the delete succeeded and the re-save
\* was rolled back), never a prefix of the new list nor a mix of old and new.
C21_FailedUpdateOutcome ==
    [][FailedUpdate(last') =>
          IF last'.delete_failed
          THEN UpdatedRows(sqlite_', last') = UpdatedRows(sqlite_, last')
          ELSE UpdatedRows(sqlite_', last') = <<>>]_vars

\* the same for the updates whose re-save, when reached, had its BEGIN and its
\* ROLLBACK succeed
FailedUpdateOutcomeWhenTransactionOk ==
    [][(/\ FailedUpdate(last')
        /\ last'.saved => last'.begin_ok /\ last'.end_ok) =>
          IF last'.delete_failed
          THEN UpdatedRows(sqlite_', last') = UpdatedRows(sqlite_, last')
          ELSE UpdatedRows(sqlite_', last') = <<>>]_vars

====
